---- MODULE Spec2Model ----
(***************************************************************************)
(* Model of scripts/migrate_all.py: the per-table migration loop of main,  *)
(* export_table_to_csv with its bcp fallback, import_csv_to_pg with its    *)
(* temporary files, and the delimiter normalizer _normalize_csv.           *)
(*                                                                         *)
(* Text (identifiers, file contents) is a sequence of one-character        *)
(* strings, so that lower(), strip() and the csv reader/writer are         *)
(* computed character by character as the code computes them.              *)
(***************************************************************************)
EXTENDS Integers, Sequences, FiniteSets, TLC

\* ------------------------------------------------------------------ bounds
\* longest intermediate file, in characters, the normalizer is checked on
MaxLen == 4
\* largest expected column count the normalizer is checked on
MaxN == 3
\* most tables one run discovers
MaxTables == 2
\* largest NUMERIC_PRECISION and NUMERIC_SCALE the type mapper is checked on
MaxPrecision == 2
MaxScale == 1

\* ------------------------------------------------------------ text helpers
NL == "\n"
CR == "\r"
QUOTE == "\""

RECURSIVE SeqsUpTo(_, _)
\* all sequences over S of length at most n
SeqsUpTo(S, n) ==
    IF n = 0 THEN {<<>>}
    ELSE LET shorter == SeqsUpTo(S, n - 1)
         IN  shorter \cup {Append(s, c) : s \in {t \in shorter : Len(t) = n - 1}, c \in S}

\* str.lower(), on the ASCII letters
LowerChar(c) ==
    CASE c = "A" -> "a"
      [] c = "B" -> "b"
      [] c = "C" -> "c"
      [] c = "D" -> "d"
      [] c = "E" -> "e"
      [] c = "F" -> "f"
      [] c = "G" -> "g"
      [] c = "H" -> "h"
      [] c = "I" -> "i"
      [] c = "J" -> "j"
      [] c = "K" -> "k"
      [] c = "L" -> "l"
      [] c = "M" -> "m"
      [] c = "N" -> "n"
      [] c = "O" -> "o"
      [] c = "P" -> "p"
      [] c = "Q" -> "q"
      [] c = "R" -> "r"
      [] c = "S" -> "s"
      [] c = "T" -> "t"
      [] c = "U" -> "u"
      [] c = "V" -> "v"
      [] c = "W" -> "w"
      [] c = "X" -> "x"
      [] c = "Y" -> "y"
      [] c = "Z" -> "z"
      [] OTHER -> c

Lower(s) == [k \in 1..Len(s) |-> LowerChar(s[k])]

RECURSIVE LStrip(_)
LStrip(s) == IF s # <<>> /\ Head(s) = " " THEN LStrip(Tail(s)) ELSE s

RECURSIVE RStrip(_)
RStrip(s) ==
    IF s # <<>> /\ s[Len(s)] = " " THEN RStrip(SubSeq(s, 1, Len(s) - 1)) ELSE s

\* str.strip()
Strip(s) == RStrip(LStrip(s))

\* "sub in s"
Contains(s, sub) ==
    \E k \in 0..(Len(s) - Len(sub)) : SubSeq(s, k + 1, k + Len(sub)) = sub

\* s.replace(a, b) for single characters
ReplaceChar(s, a, b) == [k \in 1..Len(s) |-> IF s[k] = a THEN b ELSE s[k]]

\* ------------------------------------------------- csv.reader (excel dialect)
\* Reader state: m the parser state of _csv (SR start of record, SF start of
\* field, IF in field, IQ in quoted field, QQ quote seen in quoted field,
\* EAT end of line being eaten), f the field being read, r the fields of the
\* record so far, out the records completed.
ReaderStart == [m |-> "SR", f |-> <<>>, r |-> <<>>, out |-> <<>>]

SaveField(st, m2) == [st EXCEPT !.m = m2, !.f = <<>>, !.r = Append(st.r, st.f)]

AddChar(st, c, m2) == [st EXCEPT !.m = m2, !.f = Append(st.f, c)]

\* one character other than the end-of-line sentinel
ReaderChar(st, c, d) ==
    LET isNl == c \in {NL, CR}
        \* START_RECORD falls through to START_FIELD on an ordinary character
        m == IF st.m = "SR" /\ ~isNl THEN "SF" ELSE st.m
    IN  CASE m = "SR"  -> [st EXCEPT !.m = "EAT"]
          [] m = "SF"  -> IF isNl THEN SaveField(st, "EAT")
                          ELSE IF c = QUOTE THEN [st EXCEPT !.m = "IQ"]
                          ELSE IF c = d THEN SaveField(st, "SF")
                          ELSE AddChar(st, c, "IF")
          [] m = "IF"  -> IF isNl THEN SaveField(st, "EAT")
                          ELSE IF c = d THEN SaveField(st, "SF")
                          ELSE AddChar(st, c, "IF")
          [] m = "IQ"  -> IF c = QUOTE THEN [st EXCEPT !.m = "QQ"]
                          ELSE AddChar(st, c, "IQ")
          [] m = "QQ"  -> IF c = QUOTE THEN AddChar(st, c, "IQ")
                          ELSE IF c = d THEN SaveField(st, "SF")
                          ELSE IF isNl THEN SaveField(st, "EAT")
                          ELSE AddChar(st, c, "IF")
          [] OTHER     -> st

\* the record is returned once the parser is back at START_RECORD
EmitRecord(st) == [st EXCEPT !.out = Append(st.out, st.r), !.r = <<>>]

\* the end-of-line sentinel the reader feeds after every line
ReaderEol(st) ==
    CASE st.m = "SR"  -> EmitRecord(st)
      [] st.m = "SF"  -> EmitRecord(SaveField(st, "SR"))
      [] st.m = "IF"  -> EmitRecord(SaveField(st, "SR"))
      [] st.m = "QQ"  -> EmitRecord(SaveField(st, "SR"))
      [] st.m = "EAT" -> EmitRecord([st EXCEPT !.m = "SR"])
      [] OTHER        -> st

\* no line left while a quoted field is open: the field is saved and the
\* record returned
ReaderEof(st) == IF st.m = "IQ" THEN EmitRecord(SaveField(st, "SR")) ELSE st

RECURSIVE ReadFrom(_, _, _, _)
\* the file is iterated line by line (newline=''): a line ends after "\n",
\* after a "\r" not followed by "\n", or at the end of the text
ReadFrom(text, p, st, d) ==
    IF p > Len(text) THEN ReaderEof(st)
    ELSE LET c == text[p]
             st1 == ReaderChar(st, c, d)
             lineEnd == \/ c = NL
                        \/ c = CR /\ (p = Len(text) \/ text[p + 1] # NL)
                        \/ p = Len(text)
         IN  ReadFrom(text, p + 1, IF lineEnd THEN ReaderEol(st1) ELSE st1, d)

\* list(csv.reader(f, delimiter=d))
CsvReader(text, d) == ReadFrom(text, 1, ReaderStart, d).out

\* ----------------------------------------- csv.writer (QUOTE_MINIMAL, ',')
RECURSIVE DoubleQuotes(_)
DoubleQuotes(f) ==
    IF f = <<>> THEN <<>>
    ELSE (IF Head(f) = QUOTE THEN <<QUOTE, QUOTE>> ELSE <<Head(f)>>) \o DoubleQuotes(Tail(f))

NeedsQuote(f) == \E k \in 1..Len(f) : f[k] \in {",", QUOTE, CR, NL}

WriteField(f) == IF NeedsQuote(f) THEN <<QUOTE>> \o DoubleQuotes(f) \o <<QUOTE>> ELSE f

RECURSIVE JoinFields(_)
JoinFields(row) ==
    IF row = <<>> THEN <<>>
    ELSE IF Len(row) = 1 THEN WriteField(row[1])
    ELSE WriteField(Head(row)) \o <<",">> \o JoinFields(Tail(row))

\* writer.writerow(row): a record that would be empty text is written as ""
WriteRow(row) ==
    (IF row = <<<<>>>> THEN <<QUOTE, QUOTE>> ELSE JoinFields(row)) \o <<CR, NL>>

RECURSIVE WriteRows(_)
WriteRows(rows) ==
    IF rows = <<>> THEN <<>> ELSE WriteRow(Head(rows)) \o WriteRows(Tail(rows))

\* ------------------------------------------------------------ _normalize_csv
candidates == <<",", "\t", "|", ";">>

NoBest == "none"

RECURSIVE DetectLastOnTie(_, _, _, _)
\* the delimiter loop with "cnt >= best_count": on a tie the later candidate
\* replaces the earlier one
DetectLastOnTie(text, n, k, acc) ==
    IF k > Len(candidates) THEN acc
    ELSE LET d == candidates[k]
             recs == CsvReader(text, d)
         IN  IF recs = <<>> THEN DetectLastOnTie(text, n, k + 1, acc)
             ELSE LET cnt == Len(recs[1])
                  IN  IF cnt = n THEN [best |-> d, best_count |-> cnt]
                      ELSE IF cnt >= acc.best_count
                           THEN DetectLastOnTie(text, n, k + 1, [best |-> d, best_count |-> cnt])
                           ELSE DetectLastOnTie(text, n, k + 1, acc)

RECURSIVE Detect(_, _, _, _)
\* the delimiter loop: acc is [best, best_count]
Detect(text, n, k, acc) ==
    IF k > Len(candidates) THEN acc
    ELSE LET d == candidates[k]
             recs == CsvReader(text, d)
         IN  IF recs = <<>> THEN Detect(text, n, k + 1, acc)
             ELSE LET cnt == Len(recs[1])
                  IN  IF cnt = n THEN [best |-> d, best_count |-> cnt]
                      ELSE IF cnt > acc.best_count
                           THEN Detect(text, n, k + 1, [best |-> d, best_count |-> cnt])
                           ELSE Detect(text, n, k + 1, acc)

DetectDelimiter(text, n) == Detect(text, n, 1, [best |-> NoBest, best_count |-> 0])

\* "if not best: best = ','"
ChosenDelimiter(text, n) ==
    LET b == DetectDelimiter(text, n).best IN IF b = NoBest THEN "," ELSE b

\* "if best == ',' and best_count == len(expected_cols): return path"
ReusesOriginal(text, n) ==
    ChosenDelimiter(text, n) = "," /\ DetectDelimiter(text, n).best_count = n

\* "row = row + [''] * (len(expected_cols) - len(row))"
PadRow(row, n) ==
    IF Len(row) < n THEN row \o [k \in 1..(n - Len(row)) |-> <<>>] ELSE row

\* the rows the rewrite loop hands to writer.writerow
RewrittenRows(text, n) ==
    LET rows == CsvReader(text, ChosenDelimiter(text, n))
    IN  [k \in 1..Len(rows) |-> PadRow(rows[k], n)]

\* _normalize_csv(path, expected_cols): whether a new file is made, and the
\* text of the file whose path is returned
NormalizeCsv(text, n) ==
    IF ReusesOriginal(text, n)
    THEN [rewritten |-> FALSE, text |-> text]
    ELSE [rewritten |-> TRUE, text |-> WriteRows(RewrittenRows(text, n))]

\* --------------------------------------------------------------------- state
VARIABLES
    dry_run,          \* args.dry_run
    env_bcp,          \* env.get('USE_BCP_FALLBACK', '')
    create_only_set,  \* main's create_only_set
    source,           \* the base tables of the source database, in catalogue order
    tables,           \* main's tables, the result of get_tables_list
    pc,               \* the statement of main (or of the function it called) reached
    i,                \* position of the for loop in tables
    running,          \* FALSE once an exception has left main
    error,            \* the exception that left main, NoError if none
    cols,             \* main's cols for the current table
    col_names,        \* the column names export_table_to_csv returns
    ex,               \* the exception caught at "except Exception as ex"
    summary,          \* main's summary
    stdout_ddl,       \* the loop positions whose 'DDL:' line was printed
    pg_ops,           \* the calls made on pg_conn and its cursors, in order
    pg_ddl,           \* target tables whose CREATE TABLE is committed
    pg_committed,     \* committed rows of each target table
    pg_pending,       \* rows copied in the open transaction, not yet committed
    files,            \* the files on disk: path -> [enc, text]
    temp_seq,         \* number of mkstemp calls so far
    source_path,      \* locals of import_csv_to_pg
    temp_converted,
    norm_path,
    export_calls,     \* loop positions export_table_to_csv was called for
    import_calls,     \* loop positions import_csv_to_pg was called for
    bcp_calls,        \* loop positions the bcp subprocess was run for
    rm_failed,        \* TRUE once an os.remove of the cleanup has raised
    norm_in,          \* arguments of a stand-alone _normalize_csv call
    norm_out,         \* <<>> before the call returns, then <<its result>>
    map_in,           \* arguments of a stand-alone mssql_type_to_pg call
    map_out           \* <<>> before the call returns, then <<its result>>

mainVars == <<dry_run, env_bcp, create_only_set, source, tables, pc, i, running, error,
              cols, col_names, ex, summary, stdout_ddl, pg_ops, pg_ddl, pg_committed,
              pg_pending, files, temp_seq, source_path, temp_converted, norm_path,
              export_calls, import_calls, bcp_calls, rm_failed>>

normVars == <<norm_in, norm_out>>

mapVars == <<map_in, map_out>>

vars == <<mainVars, normVars, mapVars>>

\* no path: the value of a path variable that holds NoPath
NoPath == <<"none", 0>>
NoError == [cls |-> "none", at |-> "none", table |-> 0]
NoEx == [type |-> "none", msg |-> <<>>]
NoCall == [text |-> <<>>, n |-> 0]

\* ---------------------------------------------------------- the source side
\* The source database the runs are checked on.  Two schemas hold a table of
\* the same name; one table has no columns; cells are already in the textual
\* form the row loop appends (None is the empty cell).
Catalogue == <<
    [schema |-> <<"S">>, table |-> <<"A", "b">>, cols |-> <<"c1", "c2">>,
     rows |-> << <<<<"x">>, <<>>>>, <<<<"x">>, <<",">>>> >>],
    [schema |-> <<"S">>, table |-> <<"c">>, cols |-> <<>>,
     rows |-> <<>>],
    [schema |-> <<"t">>, table |-> <<"A", "b">>, cols |-> <<"c1">>,
     rows |-> << <<<<"x">>>> >>] >>

TargetNames == {Catalogue[k].table : k \in 1..Len(Catalogue)}

\* the catalogue entry get_mssql_columns and the SELECT read
Entry(t) ==
    CHOOSE e \in {Catalogue[k] : k \in 1..Len(Catalogue)} :
        e.schema = t.schema /\ e.table = t.table

\* ascending index sequences: the ORDER BY TABLE_SCHEMA, TABLE_NAME result sets
Ascending(s) == \A a, b \in 1..Len(s) : a < b => s[a] < s[b]

SourceChoices ==
    {s \in SeqsUpTo(1..Len(Catalogue), MaxTables) : Ascending(s)}

\* values the operator may give USE_BCP_FALLBACK in .env
EnvBcpValues == {<<>>, <<"T", "r", "u", "e">>, <<"1">>}

\* values of --create-only, already split at ','
CreateOnlyArgs ==
    { <<>>,
      << <<" ", "A", "B", " ">>, <<" ">> >>,
      << <<"t", ".", "a", "b">> >>,
      << <<"S", "_", "c">> >> }

RECURSIVE ParseCreateOnly(_)
\* the loop building create_only_set: empty entries skipped, the rest
\* stripped and lower-cased
ParseCreateOnly(arg) ==
    IF arg = <<>> THEN {}
    ELSE LET tt == Strip(Head(arg))
             rest == ParseCreateOnly(Tail(arg))
         IN  IF tt = <<>> THEN rest ELSE rest \cup {Lower(Strip(tt))}

\* the membership test without lower(): 'Ab' does not match the entry 'ab'
IsCreateOnlyCaseSensitive(schema, table, set) ==
    Strip(table) \in set \/ Strip(schema \o <<".">> \o table) \in set

\* "is_create_only = (tbl_l in create_only_set) or (schema_tbl in create_only_set)"
IsCreateOnly(schema, table, set) ==
    LET tbl_l == Lower(Strip(table))
        schema_tbl == Lower(Strip(schema \o <<".">> \o table))
    IN  tbl_l \in set \/ schema_tbl \in set

\* "safe_name = f'{schema}_{table}'.replace('.', '_')"; the path is
\* export_dir/safe_name.csv
CsvPath(schema, table) ==
    <<"export", ReplaceChar(schema \o <<"_">> \o table, ".", "_")>>

TempPath(prefix, n) == <<prefix, n>>

IsTemp(p) == p[1] \in {"pg_convert_", "pg_normalized_"}

\* the exceptions the primary read-and-encode path is checked with
Exceptions ==
    { [type |-> "UnicodeDecodeError", msg |-> <<"c", "o", "d", "e", "c">>],
      [type |-> "Error", msg |-> <<"U", "T", "F", "-", "1", "6">>],
      [type |-> "Error", msg |-> <<"C", "o", "d", "e", "c">>],
      [type |-> "Error", msg |-> <<"i", "o">>] }

\* "is_codec = isinstance(ex, UnicodeDecodeError) or 'utf-16' in str(ex).lower()
\*  or 'codec' in str(ex).lower()"
IsCodec(e) ==
    \/ e.type = "UnicodeDecodeError"
    \/ Contains(Lower(e.msg), <<"u", "t", "f", "-", "1", "6">>)
    \/ Contains(Lower(e.msg), <<"c", "o", "d", "e", "c">>)

\* "use_bcp = (env.get('USE_BCP_FALLBACK','').lower() == 'true')"
UseBcp(v) == Lower(v) = <<"t", "r", "u", "e">>

\* a fallback taken on the operator flag only
FallsBackOnFlagOnly(use_bcp, is_codec) == use_bcp

\* "if not (use_bcp or is_codec): raise"
FallsBack(use_bcp, is_codec) == use_bcp \/ is_codec

\* what bcp may leave in csv_path when it exits 0: the file is written by the
\* external tool with -w, so it may or may not decode as UTF-8
BcpOutputs ==
    { [enc |-> "utf16", text |-> <<"x", "|", "x", NL>>],
      [enc |-> "utf8", text |-> <<"x", ",", NL, "x">>],
      [enc |-> "utf8_bad_tail", text |-> <<"x", NL>>] }

\* the file the primary path writes: one writerow per source row
PrimaryOutput(t) == [enc |-> "utf8", text |-> WriteRows(Entry(t).rows)]

\* ------------------------------------------------------------ small helpers
Cur == tables[i]

CurCsv == CsvPath(Cur.schema, Cur.table)

\* files with p created or overwritten
WithFile(fs, p, content) ==
    [q \in DOMAIN fs \cup {p} |-> IF q = p THEN content ELSE fs[q]]

\* files with the paths of ps removed
WithoutFiles(fs, ps) == [q \in DOMAIN fs \ ps |-> fs[q]]

\* an exception that is recorded and passed over: main goes on
RaiseAndGoOn(cls) == running' = TRUE /\ error' = [cls |-> cls, at |-> pc, table |-> i]

\* an exception leaves main: nothing catches it, the interpreter exits
Raise(cls) == running' = FALSE /\ error' = [cls |-> cls, at |-> pc, table |-> i]

\* the third element of a create-only summary entry
CreateOnlyMark == <<"(create-only)">>

\* an append that loses the create-only entries
SummaryAppendTransferredOnly(s, entry) ==
    IF entry.result = <<"(create-only)">> THEN s ELSE Append(s, entry)

\* "summary.append(...)"
SummaryAppend(s, entry) == Append(s, entry)

\* the for loop moving on: the next table, or the code after the loop
Advance == IF i < Len(tables)
           THEN i' = i + 1 /\ pc' = "get_columns"
           ELSE i' = i /\ pc' = "print_summary"

\* the import called whatever the flag
AfterExportAlwaysImports(dry) == "import_open"

\* "if not args.dry_run: import_csv_to_pg(...)"
AfterExport(dry) == IF dry THEN "record" ELSE "import_open"

importLocals == <<source_path, temp_converted, norm_path>>
pgVars == <<pg_ops, pg_ddl, pg_committed, pg_pending>>
history == <<export_calls, import_calls, bcp_calls, rm_failed>>
config == <<dry_run, env_bcp, create_only_set, source>>

\* ---------------------------------------------------------------------- Init
MainInit ==
    /\ dry_run \in BOOLEAN
    /\ env_bcp \in EnvBcpValues
    /\ create_only_set \in {ParseCreateOnly(a) : a \in CreateOnlyArgs}
    /\ source \in SourceChoices
    /\ tables = <<>>
    /\ pc = "get_tables"
    /\ i = 0
    /\ running = TRUE
    /\ error = NoError
    /\ cols = <<>>
    /\ col_names = <<>>
    /\ ex = NoEx
    /\ summary = <<>>
    /\ stdout_ddl = {}
    /\ pg_ops = <<>>
    /\ pg_ddl = {}
    /\ pg_committed = [t \in TargetNames |-> <<>>]
    /\ pg_pending = <<>>
    /\ files = <<>>
    /\ temp_seq = 0
    /\ source_path = NoPath
    /\ temp_converted = NoPath
    /\ norm_path = NoPath
    /\ export_calls = {}
    /\ import_calls = {}
    /\ bcp_calls = {}
    /\ rm_failed = FALSE

NormIdle == norm_in = NoCall /\ norm_out = <<>>

\* mssql_type_to_pg is not being called on its own
NoMapCall ==
    [data_type |-> <<>>, char_max_length |-> <<>>, numeric_precision |-> <<>>,
     numeric_scale |-> <<>>]

MapIdle == map_in = NoMapCall /\ map_out = <<>>

Init == MainInit /\ NormIdle /\ MapIdle

\* ---------------------------------------------------------------------- main
\* "tables = get_tables_list(...)"; "if not tables: ... return"
GetTables ==
    /\ running /\ pc = "get_tables"
    /\ \/ /\ tables' = [k \in 1..Len(source) |->
                          [schema |-> Catalogue[source[k]].schema,
                           table |-> Catalogue[source[k]].table]]
          /\ IF source = <<>>
             THEN pc' = "done" /\ i' = i
             ELSE pc' = "get_columns" /\ i' = 1
          /\ UNCHANGED <<running, error>>
       \/ /\ Raise("MetadataError")
          /\ UNCHANGED <<tables, pc, i>>
    /\ UNCHANGED <<config, cols, col_names, ex, summary, stdout_ddl, pgVars, files,
                   temp_seq, importLocals, history, normVars, mapVars>>

\* "cols = get_mssql_columns(mssql_conn, database, schema, table)"
GetColumns ==
    /\ running /\ pc = "get_columns"
    /\ \/ /\ cols' = Entry(Cur).cols
          /\ pc' = "ddl"
          /\ UNCHANGED <<running, error>>
       \/ /\ Raise("MetadataError")
          /\ UNCHANGED <<cols, pc>>
    /\ UNCHANGED <<config, tables, i, col_names, ex, summary, stdout_ddl, pgVars, files,
                   temp_seq, importLocals, history, normVars, mapVars>>

\* "print('DDL:', create_sql)"; "if not args.dry_run: cur.execute(create_sql);
\* pg_conn.commit()"
ApplyDdl ==
    /\ running /\ pc = "ddl"
    /\ stdout_ddl' = stdout_ddl \cup {i}
    /\ IF dry_run
       THEN /\ pc' = "policy"
            /\ UNCHANGED <<running, error, pgVars>>
       ELSE \/ /\ pg_ops' = pg_ops \o <<[op |-> "execute", table |-> Cur.table, at |-> i],
                                        [op |-> "commit", table |-> Cur.table, at |-> i]>>
               /\ pg_ddl' = pg_ddl \cup {Cur.table}
               /\ pc' = "policy"
               /\ UNCHANGED <<running, error, pg_committed, pg_pending>>
            \/ /\ pg_ops' = Append(pg_ops, [op |-> "execute", table |-> Cur.table, at |-> i])
               /\ Raise("DdlError")
               /\ UNCHANGED <<pc, pg_ddl, pg_committed, pg_pending>>
            \/ /\ pg_ops' = pg_ops \o <<[op |-> "execute", table |-> Cur.table, at |-> i],
                                        [op |-> "commit", table |-> Cur.table, at |-> i]>>
               /\ Raise("DdlError")
               /\ UNCHANGED <<pc, pg_ddl, pg_committed, pg_pending>>
    /\ UNCHANGED <<config, tables, i, cols, col_names, ex, summary, files, temp_seq,
                   importLocals, history, normVars, mapVars>>

\* the create-only test, and the branch taken on it
PolicyCheck ==
    /\ running /\ pc = "policy"
    /\ pc' = IF IsCreateOnly(Cur.schema, Cur.table, create_only_set)
             THEN "create_only" ELSE "export_columns"
    /\ UNCHANGED <<config, tables, i, running, error, cols, col_names, ex, summary,
                   stdout_ddl, pgVars, files, temp_seq, importLocals, history, normVars, mapVars>>

\* "summary.append((schema, table, '(create-only)'))"; "continue"
RecordCreateOnly ==
    /\ running /\ pc = "create_only"
    /\ summary' = SummaryAppend(summary, [schema |-> Cur.schema, table |-> Cur.table,
                                          result |-> CreateOnlyMark])
    /\ Advance
    /\ UNCHANGED <<config, tables, running, error, cols, col_names, ex, stdout_ddl,
                   pgVars, files, temp_seq, importLocals, history, normVars, mapVars>>

\* "summary.append((schema, table, os.path.abspath(csv_path)))"
RecordTransferred ==
    /\ running /\ pc = "record"
    /\ summary' = SummaryAppend(summary, [schema |-> Cur.schema, table |-> Cur.table,
                                          result |-> CurCsv])
    /\ Advance
    /\ UNCHANGED <<config, tables, running, error, cols, col_names, ex, stdout_ddl,
                   pgVars, files, temp_seq, importLocals, history, normVars, mapVars>>

\* the summary is printed and the connections are closed
Finish ==
    /\ running /\ pc = "print_summary"
    /\ pc' = "done"
    /\ pg_ops' = IF dry_run THEN pg_ops ELSE Append(pg_ops, [op |-> "close", table |-> <<>>, at |-> i])
    /\ UNCHANGED <<config, tables, i, running, error, cols, col_names, ex, summary,
                   stdout_ddl, pg_ddl, pg_committed, pg_pending, files, temp_seq,
                   importLocals, history, normVars, mapVars>>

\* ------------------------------------------------------- export_table_to_csv
\* the call, the second column query and the no-columns early return
ExportColumns ==
    /\ running /\ pc = "export_columns"
    /\ export_calls' = export_calls \cup {i}
    /\ \/ /\ Entry(Cur).cols = <<>>
          /\ col_names' = <<>>
          /\ files' = WithFile(files, CurCsv, [enc |-> "utf8", text |-> <<>>])
          /\ pc' = AfterExport(dry_run)
          /\ UNCHANGED <<running, error>>
       \/ /\ Entry(Cur).cols # <<>>
          /\ col_names' = Entry(Cur).cols
          /\ pc' = "export_primary"
          /\ UNCHANGED <<running, error, files>>
       \/ /\ Raise("MetadataError")
          /\ UNCHANGED <<col_names, files, pc>>
    /\ ex' = NoEx
    /\ UNCHANGED <<config, tables, i, cols, summary, stdout_ddl, pgVars, temp_seq,
                   importLocals, import_calls, bcp_calls, rm_failed, normVars, mapVars>>

\* the try block: the cursor is read and the rows are written, or an
\* exception is caught, before or after csv_path was opened for writing
ExportPrimary ==
    /\ running /\ pc = "export_primary"
    /\ \/ /\ files' = WithFile(files, CurCsv, PrimaryOutput(Cur))
          /\ pc' = AfterExport(dry_run)
          /\ ex' = ex
       \/ \E e \in Exceptions, opened \in BOOLEAN :
            /\ ex' = e
            /\ files' = IF opened
                        THEN WithFile(files, CurCsv, [enc |-> "utf8", text |-> <<>>])
                        ELSE files
            /\ pc' = "export_except"
    /\ UNCHANGED <<config, tables, i, running, error, cols, col_names, summary,
                   stdout_ddl, pgVars, temp_seq, importLocals, history, normVars, mapVars>>

\* the except block: re-raise, or go on to the bcp fallback
ExportExcept ==
    /\ running /\ pc = "export_except"
    /\ IF FallsBack(UseBcp(env_bcp), IsCodec(ex))
       THEN pc' = "export_bcp" /\ UNCHANGED <<running, error>>
       ELSE Raise(ex.type) /\ pc' = pc
    /\ UNCHANGED <<config, tables, i, cols, col_names, ex, summary, stdout_ddl, pgVars,
                   files, temp_seq, importLocals, history, normVars, mapVars>>

\* "proc = _subprocess.run(bcp_cmd, ...)"; SystemExit on a non-zero exit
ExportBcp ==
    /\ running /\ pc = "export_bcp"
    /\ bcp_calls' = bcp_calls \cup {i}
    /\ \/ \E out \in BcpOutputs :
            /\ files' = WithFile(files, CurCsv, out)
            /\ pc' = AfterExport(dry_run)
            /\ UNCHANGED <<running, error>>
       \/ /\ Raise("SystemExit")
          /\ UNCHANGED <<files, pc>>
    /\ UNCHANGED <<config, tables, i, cols, col_names, ex, summary, stdout_ddl, pgVars,
                   temp_seq, importLocals, export_calls, import_calls, rm_failed,
                   normVars, mapVars>>

\* ---------------------------------------------------------- import_csv_to_pg
\* the UTF-8 probe, and the transcoding into a pg_convert_ temp file
ImportOpen ==
    /\ running /\ pc = "import_open"
    /\ import_calls' = import_calls \cup {i}
    /\ IF files[CurCsv].enc = "utf16"
       THEN LET p == TempPath("pg_convert_", temp_seq + 1)
            IN  /\ temp_seq' = temp_seq + 1
                /\ files' = WithFile(files, p, [enc |-> "utf8", text |-> files[CurCsv].text])
                /\ source_path' = p
                /\ temp_converted' = p
       ELSE /\ source_path' = CurCsv
            /\ temp_converted' = NoPath
            /\ UNCHANGED <<files, temp_seq>>
    /\ norm_path' = NoPath
    /\ pc' = "import_normalize"
    /\ UNCHANGED <<config, tables, i, running, error, cols, col_names, ex, summary,
                   stdout_ddl, pgVars, export_calls, bcp_calls, rm_failed, normVars, mapVars>>

\* "norm_path = _normalize_csv(source_path, col_names if col_names else [])".
\* Bytes that do not decode lie behind the first record: detection succeeds
\* and the rewrite loop raises after its temp file was made.
ImportNormalize ==
    /\ running /\ pc = "import_normalize"
    /\ LET c == files[source_path]
           r == NormalizeCsv(c.text, Len(col_names))
           p == TempPath("pg_normalized_", temp_seq + 1)
       IN  IF ~r.rewritten
           THEN /\ norm_path' = source_path
                /\ pc' = "import_copy"
                /\ UNCHANGED <<running, error, files, temp_seq>>
           ELSE /\ temp_seq' = temp_seq + 1
                /\ files' = WithFile(files, p, [enc |-> "utf8", text |-> r.text])
                /\ IF c.enc = "utf8_bad_tail"
                   THEN Raise("UnicodeDecodeError") /\ UNCHANGED <<norm_path, pc>>
                   ELSE /\ norm_path' = p
                        /\ pc' = "import_copy"
                        /\ UNCHANGED <<running, error>>
    /\ UNCHANGED <<config, tables, i, cols, col_names, ex, summary, stdout_ddl, pgVars,
                   source_path, temp_converted, history, normVars, mapVars>>

\* the server takes a CSV row only with one field per target column (a table
\* made without columns has the single id column)
CopyAccepts(rows, n) ==
    \A k \in 1..Len(rows) : Len(rows[k]) = (IF n = 0 THEN 1 ELSE n)

\* "cur.copy_expert(copy_sql, f)": the rows are streamed into the open
\* transaction, or the statement fails and the transaction holds nothing
ImportCopy ==
    /\ running /\ pc = "import_copy"
    /\ pg_ops' = Append(pg_ops, [op |-> "copy", table |-> Cur.table, at |-> i])
    /\ LET c == files[norm_path]
           rows == CsvReader(c.text, ",")
       IN  \/ /\ c.enc # "utf8_bad_tail"
              /\ CopyAccepts(rows, Len(col_names))
              /\ pg_pending' = rows
              /\ pc' = "import_commit"
              /\ UNCHANGED <<running, error>>
           \/ /\ pg_pending' = <<>>
              /\ Raise(IF c.enc = "utf8_bad_tail" THEN "UnicodeDecodeError" ELSE "LoadError")
              /\ pc' = pc
    /\ UNCHANGED <<config, tables, i, cols, col_names, ex, summary, stdout_ddl, pg_ddl,
                   pg_committed, files, temp_seq, importLocals, history, normVars, mapVars>>

\* a load committed row by row that stops at the first row
CommittedFirstRowOnly(rows, pending) ==
    rows \o (IF pending = <<>> THEN <<>> ELSE <<pending[1]>>)

\* the committed rows of a target table after a commit of the pending rows
Committed(rows, pending) == rows \o pending

\* "pg_conn.commit()"
ImportCommit ==
    /\ running /\ pc = "import_commit"
    /\ pg_ops' = Append(pg_ops, [op |-> "commit", table |-> Cur.table, at |-> i])
    /\ pg_pending' = <<>>
    /\ \/ /\ pg_committed' = [pg_committed EXCEPT
                                ![Cur.table] = Committed(@, pg_pending)]
          /\ pc' = "import_cleanup"
          /\ UNCHANGED <<running, error>>
       \/ /\ Raise("LoadError")
          /\ UNCHANGED <<pg_committed, pc>>
    /\ UNCHANGED <<config, tables, i, cols, col_names, ex, summary, stdout_ddl, pg_ddl,
                   files, temp_seq, importLocals, history, normVars, mapVars>>

\* a cleanup that also removes the export file
CleanupTargetsWithExport(converted, norm, src, csv) ==
    {csv} \cup (IF converted # NoPath THEN {converted} ELSE {})
          \cup (IF norm # src THEN {norm} ELSE {})

\* the paths the cleanup passes to os.remove
CleanupTargets(converted, norm, src, csv) ==
    (IF converted # NoPath THEN {converted} ELSE {})
        \cup (IF norm # src THEN {norm} ELSE {})

\* "# cleanup temp files": an os.remove that raises is passed over, its file
\* stays
ImportCleanup ==
    /\ running /\ pc = "import_cleanup"
    /\ LET targets == CleanupTargets(temp_converted, norm_path, source_path, CurCsv)
       IN  \E kept \in SUBSET targets :
             /\ files' = WithoutFiles(files, targets \ kept)
             /\ rm_failed' = (rm_failed \/ kept # {})
    /\ source_path' = NoPath
    /\ temp_converted' = NoPath
    /\ norm_path' = NoPath
    /\ pc' = "record"
    /\ UNCHANGED <<config, tables, i, running, error, cols, col_names, ex, summary,
                   stdout_ddl, pgVars, temp_seq, export_calls, import_calls, bcp_calls,
                   normVars, mapVars>>

\* --------------------------------------------------------------- whole program
Next ==
    \/ GetTables
    \/ GetColumns
    \/ ApplyDdl
    \/ PolicyCheck
    \/ RecordCreateOnly
    \/ ExportColumns
    \/ ExportPrimary
    \/ ExportExcept
    \/ ExportBcp
    \/ ImportOpen
    \/ ImportNormalize
    \/ ImportCopy
    \/ ImportCommit
    \/ ImportCleanup
    \/ RecordTransferred
    \/ Finish

Spec == Init /\ [][Next]_vars

\* ------------------------------------------------ _normalize_csv on its own
Alphabet == {"x", ",", "\t", "|", ";", QUOTE, NL}

\* main is not running: only the normalizer is called
MainIdle ==
    /\ dry_run = TRUE
    /\ env_bcp = <<>>
    /\ create_only_set = {}
    /\ source = <<>>
    /\ tables = <<>>
    /\ pc = "idle"
    /\ i = 0
    /\ running = FALSE
    /\ error = NoError
    /\ cols = <<>>
    /\ col_names = <<>>
    /\ ex = NoEx
    /\ summary = <<>>
    /\ stdout_ddl = {}
    /\ pg_ops = <<>>
    /\ pg_ddl = {}
    /\ pg_committed = [t \in TargetNames |-> <<>>]
    /\ pg_pending = <<>>
    /\ files = <<>>
    /\ temp_seq = 0
    /\ source_path = NoPath
    /\ temp_converted = NoPath
    /\ norm_path = NoPath
    /\ export_calls = {}
    /\ import_calls = {}
    /\ bcp_calls = {}
    /\ rm_failed = FALSE

NormInit ==
    /\ MainIdle
    /\ MapIdle
    /\ norm_in \in [text : SeqsUpTo(Alphabet, MaxLen), n : 0..MaxN]
    /\ norm_out = <<>>

\* one call of _normalize_csv(path, expected_cols) on a file holding
\* norm_in.text with len(expected_cols) = norm_in.n
NormalizeCall ==
    /\ pc = "idle" /\ norm_out = <<>>
    /\ norm_out' = <<[best |-> ChosenDelimiter(norm_in.text, norm_in.n),
                      rewritten |-> NormalizeCsv(norm_in.text, norm_in.n).rewritten,
                      text |-> NormalizeCsv(norm_in.text, norm_in.n).text]>>
    /\ UNCHANGED <<mainVars, norm_in, mapVars>>

NormNext == NormalizeCall

SpecNorm == NormInit /\ [][NormNext]_vars

\* ------------------------------------------------------------ mssql_type_to_pg
\* "(data_type or '')": a missing type, <<>>, and the empty string give ''
TypeOrEmpty(data_type) == IF data_type = <<>> THEN <<>> ELSE data_type[1]

\* str.startswith
StartsWith(s, pre) == Len(s) >= Len(pre) /\ SubSeq(s, 1, Len(pre)) = pre

DigitChar(d) == <<"0", "1", "2", "3", "4", "5", "6", "7", "8", "9">>[d + 1]

RECURSIVE Digits(_)
\* the decimal text of an integer, as the f-string formats it
Digits(n) ==
    IF n < 0 THEN <<"-">> \o Digits(0 - n)
    ELSE IF n < 10 THEN <<DigitChar(n)>>
    ELSE Digits(n \div 10) \o <<DigitChar(n % 10)>>

\* the truth value of an optional integer: None and 0 are false
Truthy(opt) == opt # <<>> /\ opt[1] # 0

\* the chain of tests on t, the lower-cased type
MapLowered(t, numeric_precision, numeric_scale) ==
    IF t \in {<<"i", "n", "t">>}
    THEN <<"i", "n", "t", "e", "g", "e", "r">>
    ELSE IF t \in {<<"b", "i", "g", "i", "n", "t">>}
    THEN <<"b", "i", "g", "i", "n", "t">>
    ELSE IF t \in {<<"s", "m", "a", "l", "l", "i", "n", "t">>, <<"t", "i", "n", "y", "i", "n", "t">>}
    THEN <<"s", "m", "a", "l", "l", "i", "n", "t">>
    ELSE IF t \in {<<"b", "i", "t">>}
    THEN <<"b", "o", "o", "l", "e", "a", "n">>
    ELSE IF t \in {<<"f", "l", "o", "a", "t">>}
    THEN <<"d", "o", "u", "b", "l", "e", " ", "p", "r", "e", "c", "i", "s", "i", "o", "n">>
    ELSE IF t \in {<<"r", "e", "a", "l">>}
    THEN <<"r", "e", "a", "l">>
    ELSE IF t \in {<<"d", "e", "c", "i", "m", "a", "l">>, <<"n", "u", "m", "e", "r", "i", "c">>}
    THEN IF Truthy(numeric_precision) /\ numeric_scale # <<>>
         THEN <<"n", "u", "m", "e", "r", "i", "c", "(">> \o Digits(numeric_precision[1]) \o <<",">>
                  \o Digits(numeric_scale[1]) \o <<")">>
         ELSE <<"n", "u", "m", "e", "r", "i", "c">>
    ELSE IF t \in {<<"m", "o", "n", "e", "y">>}
    THEN <<"n", "u", "m", "e", "r", "i", "c", "(", "1", "9", ",", "4", ")">>
    ELSE IF t \in {<<"u", "n", "i", "q", "u", "e", "i", "d", "e", "n", "t", "i", "f", "i", "e", "r">>}
    THEN <<"u", "u", "i", "d">>
    ELSE IF StartsWith(t, <<"v", "a", "r", "c", "h", "a", "r">>) \/ StartsWith(t, <<"n", "v", "a", "r", "c", "h", "a", "r">>)
       \/ t \in {<<"t", "e", "x", "t">>, <<"n", "t", "e", "x", "t">>}
    THEN <<"t", "e", "x", "t">>
    ELSE IF t \in {<<"d", "a", "t", "e", "t", "i", "m", "e">>, <<"d", "a", "t", "e", "t", "i", "m", "e", "2">>, <<"s", "m", "a", "l", "l", "d", "a", "t", "e", "t", "i", "m", "e">>, <<"d", "a", "t", "e", "t", "i", "m", "e", "o", "f", "f", "s", "e", "t">>}
    THEN <<"t", "i", "m", "e", "s", "t", "a", "m", "p">>
    ELSE IF t \in {<<"d", "a", "t", "e">>}
    THEN <<"d", "a", "t", "e">>
    ELSE IF t \in {<<"t", "i", "m", "e">>}
    THEN <<"t", "i", "m", "e">>
    ELSE IF t \in {<<"b", "i", "n", "a", "r", "y">>, <<"v", "a", "r", "b", "i", "n", "a", "r", "y">>, <<"i", "m", "a", "g", "e">>}
    THEN <<"b", "y", "t", "e", "a">>
    ELSE <<"t", "e", "x", "t">>

\* mssql_type_to_pg without the lower(): 'INT' is not recognized
MssqlTypeToPgCaseSensitive(data_type, char_max_length, numeric_precision, numeric_scale) ==
    MapLowered(TypeOrEmpty(data_type), numeric_precision, numeric_scale)

\* mssql_type_to_pg(data_type, char_max_length, numeric_precision, numeric_scale);
\* an optional argument is <<>> for None and <<v>> for the value v
MssqlTypeToPg(data_type, char_max_length, numeric_precision, numeric_scale) ==
    MapLowered(Lower(TypeOrEmpty(data_type)), numeric_precision, numeric_scale)

\* the type names mssql_type_to_pg tests for
KnownTypes ==
    { <<"i", "n", "t">>,
      <<"b", "i", "g", "i", "n", "t">>,
      <<"s", "m", "a", "l", "l", "i", "n", "t">>,
      <<"t", "i", "n", "y", "i", "n", "t">>,
      <<"b", "i", "t">>,
      <<"f", "l", "o", "a", "t">>,
      <<"r", "e", "a", "l">>,
      <<"m", "o", "n", "e", "y">>,
      <<"u", "n", "i", "q", "u", "e", "i", "d", "e", "n", "t", "i", "f", "i", "e", "r">>,
      <<"v", "a", "r", "c", "h", "a", "r">>,
      <<"n", "v", "a", "r", "c", "h", "a", "r">>,
      <<"t", "e", "x", "t">>,
      <<"n", "t", "e", "x", "t">>,
      <<"d", "a", "t", "e", "t", "i", "m", "e">>,
      <<"d", "a", "t", "e", "t", "i", "m", "e", "2">>,
      <<"s", "m", "a", "l", "l", "d", "a", "t", "e", "t", "i", "m", "e">>,
      <<"d", "a", "t", "e", "t", "i", "m", "e", "o", "f", "f", "s", "e", "t">>,
      <<"d", "a", "t", "e">>,
      <<"t", "i", "m", "e">>,
      <<"b", "i", "n", "a", "r", "y">>,
      <<"v", "a", "r", "b", "i", "n", "a", "r", "y">>,
      <<"i", "m", "a", "g", "e">>,
      <<"d", "e", "c", "i", "m", "a", "l">>,
      <<"n", "u", "m", "e", "r", "i", "c">> }

\* type strings no test of mssql_type_to_pg matches, or only the
\* startswith tests
OtherTypes ==
    { <<"c", "h", "a", "r">>,
      <<"n", "c", "h", "a", "r">>,
      <<"x", "m", "l">>,
      <<"t", "i", "m", "e", "s", "t", "a", "m", "p">>,
      <<"i", "n", "t", "e", "g", "e", "r">>,
      <<"i", "n">>,
      <<" ", "i", "n", "t">>,
      <<"v", "a", "r", "c", "h", "a", "r", "m", "a", "x">>,
      <<>> }

\* str.upper() on the letters: the source may report a type in any case
Upper(s) ==
    [k \in 1..Len(s) |->
        LET ups == {c \in {"A", "B", "C", "D", "E", "F", "G", "H", "I", "J", "K",
                                "L", "M", "N", "O", "P", "Q", "R", "S", "T", "U", "V",
                                "W", "X", "Y", "Z"} : LowerChar(c) = s[k]}
        IN  IF ups = {} THEN s[k] ELSE CHOOSE c \in ups : TRUE]

\* the first letter in upper case
Capitalize(s) == IF s = <<>> THEN s ELSE <<Upper(s)[1]>> \o Tail(s)

\* the DATA_TYPE values the calls are checked on: missing, and every name in
\* lower case, upper case and capitalized
TypeInputs ==
    {<<>>} \cup {<<v>> : v \in UNION {{n, Upper(n), Capitalize(n)} :
                                         n \in KnownTypes \cup OtherTypes}}

\* an optional integer up to max
OptionalUpTo(max) == {<<>>} \cup {<<v>> : v \in 0..max}

MapInit ==
    /\ MainIdle
    /\ NormIdle
    /\ map_in \in [data_type : TypeInputs,
                   char_max_length : {<<>>, <<50>>},
                   numeric_precision : OptionalUpTo(MaxPrecision),
                   numeric_scale : OptionalUpTo(MaxScale)]
    /\ map_out = <<>>

\* one call of mssql_type_to_pg
MapCall ==
    /\ pc = "idle" /\ map_out = <<>>
    /\ map_out' = <<MssqlTypeToPg(map_in.data_type, map_in.char_max_length,
                                  map_in.numeric_precision, map_in.numeric_scale)>>
    /\ UNCHANGED <<mainVars, normVars, map_in>>

MapNext == MapCall

SpecMap == MapInit /\ [][MapNext]_vars

\* ===================================================================== claims
\* field count of the first record of text under delimiter d; a file with no
\* record counts as 0 fields
FirstCount(text, d) ==
    LET recs == CsvReader(text, d) IN IF recs = <<>> THEN 0 ELSE Len(recs[1])

\* positions in candidates giving exactly n fields
ExactAt(text, n) == {k \in 1..4 : FirstCount(text, candidates[k]) = n}

\* positions in candidates giving the largest field count
MaxAt(text) ==
    {k \in 1..4 : \A j \in 1..4 :
        FirstCount(text, candidates[j]) <= FirstCount(text, candidates[k])}

Least(S) == CHOOSE k \in S : \A j \in S : k <= j

\* C9: the delimiter chosen is the first of comma, tab, pipe, semicolon under
\* which the first record has exactly N fields; without such a candidate it
\* is the earliest candidate with the largest field count; the original file
\* is returned exactly when comma was chosen with exactly N fields, and
\* otherwise a new file is written that, read with comma, gives the records
\* read with the chosen delimiter, padded.
C9_DelimiterDetection ==
    norm_out # <<>> =>
        LET t == norm_in.text
            n == norm_in.n
            r == norm_out[1]
            expected == IF ExactAt(t, n) # {} THEN candidates[Least(ExactAt(t, n))]
                        ELSE candidates[Least(MaxAt(t))]
        IN  /\ r.best = expected
            /\ r.rewritten = ~(r.best = "," /\ FirstCount(t, ",") = n)
            /\ ~r.rewritten => r.text = t
            /\ r.rewritten =>
                 LET before == CsvReader(t, r.best)
                     after == CsvReader(r.text, ",")
                 IN  /\ Len(after) = Len(before)
                     /\ \A k \in 1..Len(before) :
                          /\ Len(after[k]) >= Len(before[k])
                          /\ SubSeq(after[k], 1, Len(before[k])) = before[k]

\* C9 witness: no candidate gives exactly N fields, pipe and semicolon tie
\* for the most fields, pipe is chosen and the file is rewritten
C9_Witness ==
    /\ norm_out # <<>>
    /\ norm_in.text = <<"|", ";">>
    /\ norm_in.n = 3
    /\ norm_out[1].best = "|"
    /\ norm_out[1].rewritten

\* C10: every row of the file _normalize_csv returns has at least N fields
C10_EveryRowHasNFields ==
    norm_out # <<>> =>
        \A k \in 1..Len(CsvReader(norm_out[1].text, ",")) :
            Len(CsvReader(norm_out[1].text, ",")[k]) >= norm_in.n

\* ------------------------------------------------------------ the main loop
\* the positions of main behind the DDL stage of the current table
AfterDdl ==
    {"policy", "export_columns", "export_primary", "export_except", "export_bcp",
     "import_open", "import_normalize", "import_copy", "import_commit", "import_cleanup"}

\* the stage of table k, read off the position of main and the summary
Stage(k) ==
    IF Len(summary) >= k THEN "RECORDED"
    ELSE IF k = i /\ pc = "record" THEN "TRANSFERRED"
    ELSE IF k = i /\ pc = "create_only" THEN "SCHEMA_ONLY"
    ELSE IF k = i /\ pc \in AfterDdl THEN "DDL_APPLIED"
    ELSE "DISCOVERED"

StageMoves ==
    {<<"DISCOVERED", "DDL_APPLIED">>, <<"DDL_APPLIED", "TRANSFERRED">>,
     <<"DDL_APPLIED", "SCHEMA_ONLY">>, <<"TRANSFERRED", "RECORDED">>,
     <<"SCHEMA_ONLY", "RECORDED">>}

\* C1: every table moves DISCOVERED -> DDL_APPLIED -> TRANSFERRED or
\* SCHEMA_ONLY -> RECORDED and never back; a table leaves DISCOVERED only when
\* the table before it is RECORDED; a run that ends without error leaves one
\* summary entry per discovered table, in discovery order.
C1_StagesInOrder ==
    /\ [][\A k \in 1..Len(tables) :
            Stage(k)' = Stage(k) \/ <<Stage(k), Stage(k)'>> \in StageMoves]_vars
    /\ [](\A k \in 1..Len(tables) :
            (k > 1 /\ (Stage(k) # "DISCOVERED" \/ i >= k)) => Stage(k - 1) = "RECORDED")
    /\ []((pc = "done" /\ running) =>
            /\ Len(tables) = Len(source)
            /\ Len(summary) = Len(tables)
            /\ \A k \in 1..Len(tables) :
                 /\ tables[k].schema = Catalogue[source[k]].schema
                 /\ tables[k].table = Catalogue[source[k]].table
                 /\ summary[k].schema = tables[k].schema
                 /\ summary[k].table = tables[k].table)

\* C1 witness: a run of two tables has ended without error, the first table
\* recorded as create-only and the second as transferred
C1_Witness ==
    /\ pc = "done" /\ running
    /\ Len(tables) = 2 /\ Len(summary) = 2
    /\ summary[1].result = CreateOnlyMark
    /\ summary[2].result # CreateOnlyMark

\* the table at position k is named by the operator's schema-only set
InSchemaOnlySet(k) ==
    \/ Lower(tables[k].table) \in create_only_set
    \/ Lower(tables[k].schema \o <<".">> \o tables[k].table) \in create_only_set

\* the CREATE TABLE of position k was executed and committed
DdlApplied(k) ==
    /\ \E n \in 1..Len(pg_ops) : pg_ops[n].op = "execute" /\ pg_ops[n].at = k
    /\ \E n \in 1..Len(pg_ops) : pg_ops[n].op = "commit" /\ pg_ops[n].at = k
    /\ tables[k].table \in pg_ddl

\* never exported nor loaded
NoTransfer(k) == k \notin export_calls /\ k \notin import_calls /\ k \notin bcp_calls

\* C2 as stated: a recorded table of the schema-only set has its DDL applied,
\* is never exported nor loaded and is recorded as create-only; a recorded
\* table outside the set was exported and loaded.
C2_AsStated ==
    /\ \A k \in 1..Len(tables) : InSchemaOnlySet(k) => NoTransfer(k)
    /\ \A k \in 1..Len(summary) :
         IF InSchemaOnlySet(k)
         THEN DdlApplied(k) /\ summary[k].result = CreateOnlyMark
         ELSE k \in export_calls /\ k \in import_calls

\* C2 amended: as C2, except that in a dry run the DDL is printed and not
\* applied, and the load stage is not run.
C2_SchemaOnlyPolicy ==
    /\ \A k \in 1..Len(tables) : InSchemaOnlySet(k) => NoTransfer(k)
    /\ \A k \in 1..Len(summary) :
         /\ k \in stdout_ddl
         /\ DdlApplied(k) <=> ~dry_run
         /\ IF InSchemaOnlySet(k)
            THEN summary[k].result = CreateOnlyMark
            ELSE /\ k \in export_calls
                 /\ k \in import_calls <=> ~dry_run
                 /\ summary[k].result = CsvPath(tables[k].schema, tables[k].table)

\* C2 witness: without dry run, table S.Ab outside the set was exported and
\* loaded, and table t.Ab, named by the entry 't.ab', was recorded create-only
C2_Witness ==
    /\ pc = "done" /\ running /\ ~dry_run
    /\ Len(summary) = 2
    /\ ~InSchemaOnlySet(1) /\ 1 \in import_calls
    /\ InSchemaOnlySet(2) /\ summary[2].result = CreateOnlyMark
    /\ tables[2].table = <<"A", "b">>

\* C3: once a stage has failed nothing more happens: no statement of main is
\* reached, no call is made on the target, no file changes, the summary holds
\* the tables before the failed one only.
C3_FailureAbortsRun ==
    /\ [](error.cls # "none" =>
            /\ ~running
            /\ i = error.table /\ pc = error.at
            /\ Len(summary) = (IF i = 0 THEN 0 ELSE i - 1)
            /\ (stdout_ddl \cup export_calls \cup import_calls \cup bcp_calls) \subseteq 1..i)
    /\ [][error.cls # "none" => UNCHANGED mainVars]_vars

\* C3 witness: the load of the first of two tables has failed
C3_Witness ==
    /\ ~running /\ error.cls = "LoadError" /\ error.at = "import_copy"
    /\ i = 1 /\ Len(tables) = 2 /\ summary = <<>>

InImport ==
    pc \in {"import_open", "import_normalize", "import_copy", "import_commit",
            "import_cleanup"}

\* C4: the committed rows change only at the commit of import_csv_to_pg, and
\* then by all rows of the file that was copied; a failed load changes no
\* committed row of any table.
C4_LoadIsOneUnit ==
    [][/\ pg_committed' # pg_committed =>
            /\ pc = "import_commit" /\ running'
            /\ pg_committed' = [pg_committed EXCEPT ![tables[i].table] =
                                   @ \o CsvReader(files[norm_path].text, ",")]
       /\ (InImport /\ ~running') => pg_committed' = pg_committed
       /\ (pc = "import_commit" /\ running') =>
            pg_committed'[tables[i].table] =
                pg_committed[tables[i].table] \o CsvReader(files[norm_path].text, ",")]_vars

\* C4 witness: the load of the second table failed at COPY while the two
\* rows of the first table stay committed
C4_Witness ==
    /\ ~running /\ error.at = "import_copy" /\ i = 2
    /\ Len(pg_committed[tables[1].table]) = 2

\* C5: outside import_csv_to_pg, and unless an os.remove has raised, no
\* temporary file exists
C5_TempFilesDeleted ==
    (~rm_failed /\ ~(running /\ InImport)) => \A p \in DOMAIN files : ~IsTemp(p)

\* C6 as stated: the export file of a table whose transfer has completed or
\* failed no longer exists
C6_AsStated ==
    \A k \in 1..Len(tables) :
        (k < i \/ pc = "done" \/ (k = i /\ ~running)) =>
            CsvPath(tables[k].schema, tables[k].table) \notin DOMAIN files

\* C6 amended: the export file exists from the end of the export stage on and
\* the run never removes it: it is there during the load, when the next table
\* starts and at the end of the run, under the path the summary names.
C6_ExportFileKept ==
    /\ [][\A p \in DOMAIN files : ~IsTemp(p) => p \in DOMAIN files']_vars
    /\ [](InImport => CsvPath(tables[i].schema, tables[i].table) \in DOMAIN files)
    /\ [](\A k \in 1..Len(summary) :
            summary[k].result # CreateOnlyMark => summary[k].result \in DOMAIN files)

\* C6 witness: the second table starts while the export file of the first,
\* already loaded, is on disk
C6_Witness ==
    /\ running /\ pc = "get_columns" /\ i = 2
    /\ 1 \in import_calls
    /\ CsvPath(tables[1].schema, tables[1].table) \in DOMAIN files

\* the error is an encoding or codec failure
CodecFailure(e) ==
    \/ e.type = "UnicodeDecodeError"
    \/ \E sub \in {<<"u", "t", "f", "-", "1", "6">>, <<"c", "o", "d", "e", "c">>} :
         Contains(Lower(e.msg), sub)

OverrideSet == env_bcp \in {<<"T", "r", "u", "e">>}

\* C7: after an error of the primary path bcp is run iff the error is a codec
\* failure or USE_BCP_FALLBACK is true; otherwise the error leaves main and
\* bcp is not run; a failing bcp ends the run, a successful one returns the
\* column names of the primary path.
C7_FallbackPolicy ==
    /\ [][pc = "export_except" =>
            IF CodecFailure(ex) \/ OverrideSet
            THEN pc' = "export_bcp" /\ running'
            ELSE ~running' /\ error'.cls = ex.type /\ bcp_calls' = bcp_calls]_vars
    /\ [][bcp_calls' # bcp_calls =>
            /\ pc = "export_bcp" /\ bcp_calls' = bcp_calls \cup {i}
            /\ CodecFailure(ex) \/ OverrideSet
            /\ IF running'
               THEN col_names' = Entry(tables[i]).cols /\ pc' \in {"record", "import_open"}
               ELSE error'.cls = "SystemExit"]_vars
    /\ [](pc = "export_bcp" => CodecFailure(ex) \/ OverrideSet)

\* C7 witness: bcp was run, and succeeded, after an error that is no codec
\* failure
C7_Witness ==
    /\ running /\ i \in bcp_calls /\ pc \in {"record", "import_open"}
    /\ ~CodecFailure(ex) /\ ex.type = "Error"

\* C8: in a dry run nothing is called on the target and nothing is committed
\* there, while every table the loop has reached had its columns read and its
\* DDL printed; a dry run that ends without error printed the DDL of every
\* discovered table.
C8_DryRunSparesTarget ==
    dry_run =>
        /\ pg_ops = <<>> /\ pg_ddl = {} /\ pg_pending = <<>>
        /\ \A t \in TargetNames : pg_committed[t] = <<>>
        /\ import_calls = {}
        /\ \A k \in 1..Len(tables) : (k < i \/ (k = i /\ pc # "get_columns" /\ pc # "ddl"))
                                        => k \in stdout_ddl
        /\ (pc = "done" /\ running) =>
              Len(tables) = Len(source) /\ stdout_ddl = 1..Len(tables)

\* C8 witness: a dry run over two tables has ended, both DDLs printed, one
\* table exported
C8_Witness ==
    /\ dry_run /\ pc = "done" /\ running
    /\ Len(tables) = 2 /\ stdout_ddl = {1, 2} /\ export_calls # {}

\* ------------------------------------------------------------- the type mapper
\* the mapping table: source type, lower case, and its target type
MappingTable ==
    { <<<<"i", "n", "t">>, <<"i", "n", "t", "e", "g", "e", "r">>>>,
      <<<<"b", "i", "g", "i", "n", "t">>, <<"b", "i", "g", "i", "n", "t">>>>,
      <<<<"s", "m", "a", "l", "l", "i", "n", "t">>, <<"s", "m", "a", "l", "l", "i", "n", "t">>>>,
      <<<<"t", "i", "n", "y", "i", "n", "t">>, <<"s", "m", "a", "l", "l", "i", "n", "t">>>>,
      <<<<"b", "i", "t">>, <<"b", "o", "o", "l", "e", "a", "n">>>>,
      <<<<"f", "l", "o", "a", "t">>, <<"d", "o", "u", "b", "l", "e", " ", "p", "r", "e", "c", "i", "s", "i", "o", "n">>>>,
      <<<<"r", "e", "a", "l">>, <<"r", "e", "a", "l">>>>,
      <<<<"m", "o", "n", "e", "y">>, <<"n", "u", "m", "e", "r", "i", "c", "(", "1", "9", ",", "4", ")">>>>,
      <<<<"u", "n", "i", "q", "u", "e", "i", "d", "e", "n", "t", "i", "f", "i", "e", "r">>, <<"u", "u", "i", "d">>>>,
      <<<<"v", "a", "r", "c", "h", "a", "r">>, <<"t", "e", "x", "t">>>>,
      <<<<"n", "v", "a", "r", "c", "h", "a", "r">>, <<"t", "e", "x", "t">>>>,
      <<<<"t", "e", "x", "t">>, <<"t", "e", "x", "t">>>>,
      <<<<"n", "t", "e", "x", "t">>, <<"t", "e", "x", "t">>>>,
      <<<<"d", "a", "t", "e", "t", "i", "m", "e">>, <<"t", "i", "m", "e", "s", "t", "a", "m", "p">>>>,
      <<<<"d", "a", "t", "e", "t", "i", "m", "e", "2">>, <<"t", "i", "m", "e", "s", "t", "a", "m", "p">>>>,
      <<<<"s", "m", "a", "l", "l", "d", "a", "t", "e", "t", "i", "m", "e">>, <<"t", "i", "m", "e", "s", "t", "a", "m", "p">>>>,
      <<<<"d", "a", "t", "e", "t", "i", "m", "e", "o", "f", "f", "s", "e", "t">>, <<"t", "i", "m", "e", "s", "t", "a", "m", "p">>>>,
      <<<<"d", "a", "t", "e">>, <<"d", "a", "t", "e">>>>,
      <<<<"t", "i", "m", "e">>, <<"t", "i", "m", "e">>>>,
      <<<<"b", "i", "n", "a", "r", "y">>, <<"b", "y", "t", "e", "a">>>>,
      <<<<"v", "a", "r", "b", "i", "n", "a", "r", "y">>, <<"b", "y", "t", "e", "a">>>>,
      <<<<"i", "m", "a", "g", "e">>, <<"b", "y", "t", "e", "a">>>> }

TableTypes == {e[1] : e \in MappingTable}

TableTarget(t) == (CHOOSE e \in MappingTable : e[1] = t)[2]

\* the target type the mapping table gives, with numeric(p,s) when hasBoth
TargetFor(t, hasBoth, p, s) ==
    IF t \in {<<"d", "e", "c", "i", "m", "a", "l">>, <<"n", "u", "m", "e", "r", "i", "c">>}
    THEN IF hasBoth
         THEN <<"n", "u", "m", "e", "r", "i", "c", "(">> \o Digits(p[1]) \o <<",">> \o Digits(s[1]) \o <<")">>
         ELSE <<"n", "u", "m", "e", "r", "i", "c">>
    ELSE IF t \in TableTypes THEN TableTarget(t)
    ELSE <<"t", "e", "x", "t">>

\* C11 as stated: the result is never empty, follows the mapping table on the
\* type whatever its case, is numeric(p,s) for decimal/numeric when precision
\* and scale are both present and numeric otherwise, and is text for every
\* other type.
C11_AsStated ==
    map_out # <<>> =>
        LET t == Lower(TypeOrEmpty(map_in.data_type))
            p == map_in.numeric_precision
            s == map_in.numeric_scale
        IN  /\ Len(map_out[1]) > 0
            /\ map_out[1] = TargetFor(t, p # <<>> /\ s # <<>>, p, s)

\* C11 amended: as C11, with numeric(p,s) when the precision is present and
\* not 0 and the scale is present, and numeric otherwise.
C11_TypeMapping ==
    map_out # <<>> =>
        LET t == Lower(TypeOrEmpty(map_in.data_type))
            p == map_in.numeric_precision
            s == map_in.numeric_scale
        IN  /\ Len(map_out[1]) > 0
            /\ map_out[1] = TargetFor(t, p # <<>> /\ p # <<0>> /\ s # <<>>, p, s)

\* C11 witness: <<"d", "e", "c", "i", "m", "a", "l">> in upper case with precision 2 and scale 0 was mapped
\* to numeric(2,0)
C11_Witness ==
    /\ map_out # <<>>
    /\ map_in.data_type = <<<<"D", "E", "C", "I", "M", "A", "L">>>>
    /\ map_in.numeric_precision = <<2>>
    /\ map_in.numeric_scale = <<0>>
    /\ map_out[1] = <<"n", "u", "m", "e", "r", "i", "c", "(", "2", ",", "0", ")">>

====
